---------------------------- MODULE Spec2Model ----------------------------
(***************************************************************************)
(* Model of the GitLab helper (src/utils.py, src/models/*.py):             *)
(*   - decode_content          base64 -> (text | bytes, flag)              *)
(*   - get_repository_contents branch / tree resolution                    *)
(*   - can_iterate.tree        lazy expansion of a directory item          *)
(*   - clone_repo              recursive materialisation on local storage  *)
(* Strings that the code inspects are sequences: a ref is a sequence of    *)
(* tokens (" " is whitespace), a path is a sequence of segments, a base64  *)
(* text is a sequence of characters, bytes are sequences of 0..255.        *)
(***************************************************************************)
EXTENDS FiniteSets, Integers, Sequences, TLC

VARIABLES
    world,      \* the remote repository the API client talks to
    fs0,        \* the local filesystem before the call
    fs,         \* the local filesystem: [dirs, files]
    pc,         \* position of the running call
    op,         \* "resolve" (get_repository_contents) or "clone" (clone_repo)
    refArg,     \* the ref argument as passed by the caller
    overwrite,  \* the overwrite argument of clone_repo
    branches,   \* result of project.branches.list()
    contents,   \* the dict `contents` of get_repository_contents
    loopIdx,    \* position of `for branch in branches`
    manager,    \* the BranchManager built by get_repository_contents
    stack,      \* items process_content still has to visit, in visit order
    calls,      \* remote content requests issued so far
    fault,      \* what raised: "none", "remote", "decode" or "local"
    outcome,    \* "none", "returned", "raised"
    expandCalls,\* number of tree() calls made on each top-level item
    lastExpand, \* result of the latest tree() call
    b64in,      \* codec: the argument of decode_content
    b64out      \* codec: the result of decode_content

vars == <<world, fs0, fs, pc, op, refArg, overwrite, branches, contents,
          loopIdx, manager, stack, calls, fault, outcome, expandCalls,
          lastExpand, b64in, b64out>>

-----------------------------------------------------------------------------
(* Bounds *)

MaxB64Len == 4      \* longest base64 text given to decode_content
MaxRefLen == 3      \* longest ref argument, in tokens
MaxExpand == 2      \* tree() calls made on one item

-----------------------------------------------------------------------------
(* Generic helpers *)

SeqsUpTo(S, n) == UNION {[1..k -> S] : k \in 0..n}

Range(s) == {s[i] : i \in 1..Len(s)}

IsPrefix(p, s) == Len(p) <= Len(s) /\ SubSeq(s, 1, Len(p)) = p

-----------------------------------------------------------------------------
(* base64.b64decode (binascii.a2b_base64, non-strict mode)                 *)

B64Alphabet ==
    <<"A","B","C","D","E","F","G","H","I","J","K","L","M","N","O","P",
      "Q","R","S","T","U","V","W","X","Y","Z","a","b","c","d","e","f",
      "g","h","i","j","k","l","m","n","o","p","q","r","s","t","u","v",
      "w","x","y","z","0","1","2","3","4","5","6","7","8","9","+","/">>

\* 0..63 for an alphabet character, 64 for anything else
B64Val(c) ==
    IF \E i \in 1..64 : B64Alphabet[i] = c
    THEN (CHOOSE i \in 1..64 : B64Alphabet[i] = c) - 1
    ELSE 64

RECURSIVE B64Scan(_, _, _, _, _, _)
B64Scan(s, i, quad, left, pads, out) ==
    IF i > Len(s)
    THEN [err |-> quad # 0, bytes |-> out]
    ELSE IF s[i] = "="
    THEN IF quad >= 2 /\ quad + pads + 1 >= 4
         THEN [err |-> FALSE, bytes |-> out]
         ELSE B64Scan(s, i + 1, quad, left,
                      IF quad >= 2 THEN pads + 1 ELSE pads, out)
    ELSE LET v == B64Val(s[i]) IN
         IF v >= 64
         THEN B64Scan(s, i + 1, quad, left, pads, out)
         ELSE CASE quad = 0 -> B64Scan(s, i + 1, 1, v, 0, out)
                [] quad = 1 -> B64Scan(s, i + 1, 2, v % 16, 0,
                                       Append(out, left * 4 + (v \div 16)))
                [] quad = 2 -> B64Scan(s, i + 1, 3, v % 4, 0,
                                       Append(out, left * 16 + (v \div 4)))
                [] OTHER    -> B64Scan(s, i + 1, 0, 0, 0,
                                       Append(out, left * 64 + v))

b64decode(s) == B64Scan(s, 1, 0, 0, 0, <<>>)

-----------------------------------------------------------------------------
(* bytes.decode('utf-8') and str.encode('utf-8')                           *)

IsCont(b) == b >= 128 /\ b <= 191

\* result: [err, text] where text is the sequence of code points
RECURSIVE Utf8Scan(_, _, _)
Utf8Scan(b, i, out) ==
    IF i > Len(b) THEN [err |-> FALSE, text |-> out]
    ELSE LET b1 == b[i]
             n  == Len(b) - i
         IN
         IF b1 < 128 THEN Utf8Scan(b, i + 1, Append(out, b1))
         ELSE IF b1 >= 194 /\ b1 <= 223
         THEN IF n >= 1 /\ IsCont(b[i + 1])
              THEN Utf8Scan(b, i + 2,
                            Append(out, (b1 - 192) * 64 + (b[i + 1] - 128)))
              ELSE [err |-> TRUE, text |-> <<>>]
         ELSE IF b1 >= 224 /\ b1 <= 239
         THEN IF /\ n >= 2
                 /\ IsCont(b[i + 1])
                 /\ IsCont(b[i + 2])
                 /\ (b1 = 224 => b[i + 1] >= 160)
                 /\ (b1 = 237 => b[i + 1] <= 159)
              THEN Utf8Scan(b, i + 3,
                            Append(out, (b1 - 224) * 4096
                                        + (b[i + 1] - 128) * 64
                                        + (b[i + 2] - 128)))
              ELSE [err |-> TRUE, text |-> <<>>]
         ELSE IF b1 >= 240 /\ b1 <= 244
         THEN IF /\ n >= 3
                 /\ IsCont(b[i + 1])
                 /\ IsCont(b[i + 2])
                 /\ IsCont(b[i + 3])
                 /\ (b1 = 240 => b[i + 1] >= 144)
                 /\ (b1 = 244 => b[i + 1] <= 143)
              THEN Utf8Scan(b, i + 4,
                            Append(out, (b1 - 240) * 262144
                                        + (b[i + 1] - 128) * 4096
                                        + (b[i + 2] - 128) * 64
                                        + (b[i + 3] - 128)))
              ELSE [err |-> TRUE, text |-> <<>>]
         ELSE [err |-> TRUE, text |-> <<>>]

utf8decode(b) == Utf8Scan(b, 1, <<>>)

EncodePoint(c) ==
    IF c < 128 THEN <<c>>
    ELSE IF c < 2048 THEN <<192 + (c \div 64), 128 + (c % 64)>>
    ELSE IF c < 65536
    THEN <<224 + (c \div 4096), 128 + ((c \div 64) % 64), 128 + (c % 64)>>
    ELSE <<240 + (c \div 262144), 128 + ((c \div 4096) % 64),
           128 + ((c \div 64) % 64), 128 + (c % 64)>>

RECURSIVE utf8encode(_)
utf8encode(t) ==
    IF t = <<>> THEN <<>> ELSE EncodePoint(Head(t)) \o utf8encode(Tail(t))

-----------------------------------------------------------------------------
(* GitLab.decode_content                                                   *)

\* result: raised, or (text, 1), or (bytes, 0)
DecodeRaise == [raised |-> TRUE, flag |-> 0, text |-> <<>>, bytes |-> <<>>]

decode_content(content) ==
    LET d == b64decode(content)
        u == utf8decode(d.bytes)
        tryFails == d.err \/ u.err
    IN  IF ~tryFails
        THEN [raised |-> FALSE, flag |-> 1, text |-> u.text, bytes |-> <<>>]
        ELSE \* except Exception: return base64.b64decode(content), 0
             IF d.err
             THEN DecodeRaise
             ELSE [raised |-> FALSE, flag |-> 0, text |-> <<>>,
                   bytes |-> d.bytes]

-----------------------------------------------------------------------------
(* The remote repository (the python-gitlab collaborator)                   *)

MainId == <<"main">>
DevId  == <<"dev">>
RelId  == <<"rel">>

BlobEntry(p) == [name |-> p[Len(p)], path |-> p, type |-> "blob"]
TreeEntry(p) == [name |-> p[Len(p)], path |-> p, type |-> "tree"]

B64Hi     == <<"a", "G", "k", "=">>     \* b"hi"
B64Binary == <<"/", "w", "=", "=">>     \* b"\xff"
B64Accent == <<"w", "6", "k", "=">>     \* b"\xc3\xa9"
B64Broken == <<"a", "G", "k">>          \* truncated: incorrect padding

\* branches: what branches.list() returns; tree: repository_tree per
\* (branch, directory path); blob: files.get(...).content per (branch, path)
Acme ==
    [name     |-> "acme",
     branches |-> <<MainId, DevId>>,
     tree     |-> (<<MainId, <<>>>> :> <<BlobEntry(<<"README.md">>),
                                       TreeEntry(<<"src">>)>>)
               @@ (<<MainId, <<"src">>>> :> <<BlobEntry(<<"src", "lib.ext">>),
                                             TreeEntry(<<"src", "deep">>)>>)
               @@ (<<MainId, <<"src", "deep">>>> :>
                       <<BlobEntry(<<"src", "deep", "z.txt">>)>>)
               @@ (<<DevId, <<>>>> :> <<BlobEntry(<<"README.md">>)>>),
     blob     |-> (<<MainId, <<"README.md">>>> :> B64Hi)
               @@ (<<MainId, <<"src", "lib.ext">>>> :> B64Binary)
               @@ (<<MainId, <<"src", "deep", "z.txt">>>> :> B64Accent)
               @@ (<<DevId, <<"README.md">>>> :> B64Accent)]

DevFirst ==
    [name     |-> "devfirst",
     branches |-> <<DevId, MainId, RelId>>,
     tree     |-> (<<MainId, <<>>>> :> <<TreeEntry(<<"docs">>),
                                       BlobEntry(<<"a.bin">>)>>)
               @@ (<<DevId, <<>>>> :> <<BlobEntry(<<"a.bin">>)>>),
     blob     |-> (<<MainId, <<"a.bin">>>> :> B64Binary)
               @@ (<<DevId, <<"a.bin">>>> :> B64Hi)]

NoMain ==
    [name     |-> "nomain",
     branches |-> <<DevId>>,
     tree     |-> (<<DevId, <<>>>> :> <<TreeEntry(<<"src">>)>>)
               @@ (<<DevId, <<"src">>>> :> <<BlobEntry(<<"src", "lib.ext">>)>>),
     blob     |-> (<<DevId, <<"src", "lib.ext">>>> :> B64Hi)]

OnlyMain ==
    [name     |-> "onlymain",
     branches |-> <<MainId>>,
     tree     |-> (<<MainId, <<>>>> :> <<BlobEntry(<<"broken.txt">>),
                                       BlobEntry(<<"README.md">>)>>),
     blob     |-> (<<MainId, <<"broken.txt">>>> :> B64Broken)
               @@ (<<MainId, <<"README.md">>>> :> B64Hi)]

\* a remote that reports paths with parent-directory segments
Traversal ==
    [name     |-> "traversal",
     branches |-> <<MainId>>,
     tree     |-> (<<MainId, <<>>>> :> <<BlobEntry(<<"ok.txt">>),
                                       BlobEntry(<<"..", "evil">>),
                                       TreeEntry(<<"..", "out">>),
                                       BlobEntry(<<"docs", "note">>)>>)
               @@ (<<MainId, <<"..", "out">>>> :>
                       <<BlobEntry(<<"..", "out", "x">>)>>),
     blob     |-> (<<MainId, <<"ok.txt">>>> :> B64Hi)
               @@ (<<MainId, <<"..", "evil">>>> :> B64Accent)
               @@ (<<MainId, <<"..", "out", "x">>>> :> B64Binary)
               @@ (<<MainId, <<"docs", "note">>>> :> B64Hi)]

NoBranches ==
    [name     |-> "nobranches",
     branches |-> <<>>,
     tree     |-> (<<MainId, <<"none">>>> :> <<>>),
     blob     |-> (<<MainId, <<"none">>>> :> <<>>)]

Worlds == {Acme, DevFirst, NoMain, OnlyMain, Traversal, NoBranches}

\* a Python argument: omitted, None, or a string
Omitted   == [tag |-> "omitted", s |-> <<>>]
PyNone    == [tag |-> "none", s |-> <<>>]
PyStr(s)  == [tag |-> "str", s |-> s]

\* the remote serves content only for a ref that names one of its branches
RefServed(w, ref) == ref.tag = "str" /\ ref.s \in Range(w.branches)

\* project.repository_tree(ref=..., path=...)
repository_tree(w, id, path) ==
    IF <<id, path>> \in DOMAIN w.tree THEN w.tree[<<id, path>>] ELSE <<>>

\* project.files.get(path, ref=...).content
HasFile(w, ref, path) == RefServed(w, ref) /\ <<ref.s, path>> \in DOMAIN w.blob

file_content(w, id, path) == w.blob[<<id, path>>]

-----------------------------------------------------------------------------
(* models/branches.py, models/repos.py                                     *)

NoBranch == [some |-> FALSE, encoded_id |-> <<>>]
ProjectBranch(id) == [some |-> TRUE, encoded_id |-> id]

\* RepositoryItem(**item, self=..., repo_name=..., branch=...)
RepositoryItem(entry, branch) ==
    [name |-> entry.name, path |-> entry.path, type |-> entry.type,
     branch |-> branch]

\* Branch(name, branch=None, contents=[])
Branch(name, branch, items) ==
    [name |-> name, branch |-> branch, contents |-> items]

\* BranchManager(main, has_more=False, other_branches=[])
BranchManager(main, more, others) ==
    [primary |-> main, has_more |-> more, other_branches |-> others]

NoManager == BranchManager(Branch(<<>>, NoBranch, <<>>), FALSE, <<>>)

-----------------------------------------------------------------------------
(* get_repository_contents                                                 *)

DefaultRef == PyStr(MainId)     \* ref: str = "main"

\* the value bound to the parameter `ref`
Ref == IF refArg.tag = "omitted" THEN DefaultRef ELSE refArg

\* `if ref:`
Truthy(r) == r.tag = "str" /\ r.s # <<>>

\* str.strip(): drop leading and trailing whitespace tokens
RECURSIVE LStrip(_)
LStrip(s) == IF s # <<>> /\ Head(s) = " " THEN LStrip(Tail(s)) ELSE s

RECURSIVE RStrip(_)
RStrip(s) ==
    IF s # <<>> /\ s[Len(s)] = " " THEN RStrip(SubSeq(s, 1, Len(s) - 1)) ELSE s

Strip(s) == RStrip(LStrip(s))

\* variant: a branch whose identifier merely starts the ref also matches
FindBranchPrefix(bs, id) ==
    IF \E i \in 1..Len(bs) : IsPrefix(bs[i].encoded_id, id)
    THEN bs[CHOOSE i \in 1..Len(bs) :
                /\ IsPrefix(bs[i].encoded_id, id)
                /\ \A j \in 1..(i - 1) : ~IsPrefix(bs[j].encoded_id, id)]
    ELSE [some |-> FALSE, encoded_id |-> <<>>]

\* next((b for b in branches if b.encoded_id == ref), None)
FindBranch(bs, id) ==
    IF \E i \in 1..Len(bs) : bs[i].encoded_id = id
    THEN bs[CHOOSE i \in 1..Len(bs) :
                /\ bs[i].encoded_id = id
                /\ \A j \in 1..(i - 1) : bs[j].encoded_id # id]
    ELSE NoBranch

\* [can_iterate(RepositoryItem(**item, ..., branch=b)) for item in listing]
WrapItems(listing, b) ==
    [i \in 1..Len(listing) |-> RepositoryItem(listing[i], b)]

\* return BranchManager(main=Branch(name=ref))
NotFoundManager(ref) == BranchManager(Branch(ref, NoBranch, <<>>), FALSE, <<>>)

ScopedManager(ref, refBranch, items) ==
    BranchManager(Branch(ref, refBranch, items), FALSE, <<>>)

\* contents.get(id, [])
DictGet(d, id) == IF id \in DOMAIN d THEN d[id] ELSE <<>>

\* contents.pop("main", None)
DictPop(d, id) == [k \in (DOMAIN d) \ {id} |-> d[k]]

NotMain(b) == b.encoded_id # MainId

OtherBranches(bs, d) ==
    LET rest == SelectSeq(bs, NotMain)
    IN  [i \in 1..Len(rest) |->
            Branch(rest[i].encoded_id, rest[i], DictGet(d, rest[i].encoded_id))]

\* variant: has_more is taken from the dict before "main" is popped
UnscopedManagerNoPop(bs, d) ==
    BranchManager(Branch(MainId, FindBranch(bs, MainId), DictGet(d, MainId)),
                  DOMAIN d # {},
                  OtherBranches(bs, DictPop(d, MainId)))

\* lines 144-161
UnscopedManager(bs, d) ==
    LET mainContents == DictGet(d, MainId)
        popped       == DictPop(d, MainId)
    IN  BranchManager(Branch(MainId, FindBranch(bs, MainId), mainContents),
                      DOMAIN popped # {},
                      OtherBranches(bs, popped))

-----------------------------------------------------------------------------
(* Local filesystem (os.path, pathlib)                                     *)

Cwd      == <<"cwd">>                   \* os.getcwd()
FullName == <<"acme", "widgets">>       \* "acme/widgets"

\* _, repo_name = full_name.split('/')
RepoName == FullName[2]

\* Path(os.path.join(os.getcwd(), repo_name))
RepoPath == Cwd \o <<RepoName>>

\* the location a path names once the OS has resolved its ".." segments
RECURSIVE NormAcc(_, _)
NormAcc(p, acc) ==
    IF p = <<>> THEN acc
    ELSE IF Head(p) = ".."
    THEN NormAcc(Tail(p), IF acc = <<>> THEN acc
                          ELSE SubSeq(acc, 1, Len(acc) - 1))
    ELSE NormAcc(Tail(p), Append(acc, Head(p)))

Norm(p) == NormAcc(p, <<>>)

Parent(p) == SubSeq(p, 1, Len(p) - 1)

\* os.path.exists
Exists(f, p) == Norm(p) \in f.dirs \/ Norm(p) \in DOMAIN f.files

PrefixLocs(p) == {Norm(SubSeq(p, 1, k)) : k \in 1..Len(p)}

\* Path.mkdir(parents=True, exist_ok=True)
MkdirFails(f, p) == \E loc \in PrefixLocs(p) : loc \in DOMAIN f.files

Mkdir(f, p) == [dirs |-> f.dirs \cup PrefixLocs(p), files |-> f.files]

\* open(path, 'w' | 'wb') ... f.write(content)
OpenFails(f, p) == Norm(p) \in f.dirs \/ Norm(Parent(p)) \notin f.dirs

WriteFile(f, p, d) ==
    [dirs  |-> f.dirs,
     files |-> (Norm(p) :> [mode |-> IF d.flag = 1 THEN "w" ELSE "wb",
                            data |-> IF d.flag = 1 THEN utf8encode(d.text)
                                     ELSE d.bytes])
               @@ f.files]

OldFile == [mode |-> "wb", data |-> <<111>>]

FsFresh == [dirs |-> {Cwd}, files |-> <<>>]

FsEmptyRoot == [dirs |-> {Cwd, RepoPath}, files |-> <<>>]

FsOldRoot ==
    [dirs  |-> {Cwd, RepoPath},
     files |-> ((RepoPath \o <<"README.md">>) :> OldFile)
            @@ ((RepoPath \o <<"stale.txt">>) :> OldFile)
            @@ ((Cwd \o <<"evil">>) :> OldFile)]

FsRootIsFile == [dirs |-> {Cwd}, files |-> (RepoPath :> OldFile)]

FsClash ==
    [dirs  |-> {Cwd, RepoPath, RepoPath \o <<"README.md">>,
                RepoPath \o <<"a.bin">>},
     files |-> ((RepoPath \o <<"src">>) :> OldFile)
            @@ ((RepoPath \o <<"docs">>) :> OldFile)]

Filesystems == {FsFresh, FsEmptyRoot, FsOldRoot, FsRootIsFile, FsClash}

-----------------------------------------------------------------------------
(* Calls                                                                   *)

RefTokens == {" ", "main", "dev"}

RefArgs == {Omitted, PyNone} \cup {PyStr(s) : s \in SeqsUpTo(RefTokens, MaxRefLen)}

TreeCall(ref, path) == [kind |-> "tree", ref |-> ref, path |-> path]
FileCall(ref, path) == [kind |-> "file", ref |-> ref, path |-> path]

B64Chars == {"a", "G", "k", "w", "6", "/", "=", "!"}

NotDecoded == [raised |-> FALSE, flag |-> 2, text |-> <<>>, bytes |-> <<>>]

Init ==
    /\ world \in Worlds
    /\ fs0 \in Filesystems
    /\ fs = fs0
    /\ pc = "idle"
    /\ op = "none"
    /\ refArg = Omitted
    /\ overwrite = FALSE
    /\ branches = <<>>
    /\ contents = <<>>
    /\ loopIdx = 0
    /\ manager = NoManager
    /\ stack = <<>>
    /\ calls = <<>>
    /\ fault = "none"
    /\ outcome = "none"
    /\ expandCalls = <<>>
    /\ lastExpand = <<>>
    /\ b64in = <<>>
    /\ b64out = NotDecoded

env   == <<world, fs0>>
args  == <<op, refArg, overwrite>>
codec == <<b64in, b64out>>
lazy  == <<expandCalls, lastExpand>>

\* variant: the fault is recorded but swallowed, the call carries on
RaiseSwallowed(kind) ==
    /\ pc' = pc
    /\ outcome' = outcome
    /\ fault' = kind

\* an exception leaves the call at the statement that raised it
Raise(kind) ==
    /\ pc' = pc
    /\ outcome' = "raised"
    /\ fault' = kind

\* get_repository_contents returns `m`; clone_repo goes on at line 176
ResolveReturns(m) ==
    /\ manager' = m
    /\ expandCalls' = [i \in 1..Len(m.primary.contents) |-> 0]
    /\ IF op = "resolve"
       THEN pc' = "done" /\ outcome' = "returned"
       ELSE pc' = "clone_enter" /\ outcome' = outcome
    /\ fault' = fault

\* a caller invokes get_repository_contents or clone_repo
Call(o, r, ow) ==
    /\ pc = "idle"
    /\ op' = o
    /\ refArg' = r
    /\ overwrite' = ow
    /\ pc' = "get_project"
    /\ UNCHANGED <<env, fs, branches, contents, loopIdx, manager, stack,
                   calls, fault, outcome, lazy, codec>>

\* self.projects.get(full_name)
GetProject ==
    /\ pc = "get_project"
    /\ outcome = "none"
    /\ \E netOk \in BOOLEAN :
          IF netOk
          THEN pc' = "list_branches" /\ UNCHANGED <<outcome, fault>>
          ELSE Raise("remote")
    /\ UNCHANGED <<env, args, fs, branches, contents, loopIdx, manager,
                   stack, calls, lazy, codec>>

\* branches = project.branches.list(), then the ref lookup of lines 107-111
ListBranches ==
    /\ pc = "list_branches"
    /\ outcome = "none"
    /\ \E netOk \in BOOLEAN :
          IF ~netOk
          THEN /\ Raise("remote")
               /\ UNCHANGED <<branches, manager, loopIdx, expandCalls>>
          ELSE LET bs == [i \in 1..Len(world.branches) |->
                            ProjectBranch(world.branches[i])]
                   ref == Strip(Ref.s)
               IN
               /\ branches' = bs
               /\ IF Truthy(Ref)
                  THEN IF ~FindBranch(bs, ref).some
                       THEN /\ ResolveReturns(NotFoundManager(ref))
                            /\ loopIdx' = loopIdx
                       ELSE /\ pc' = "scoped_tree"
                            /\ UNCHANGED <<manager, loopIdx, outcome, fault,
                                           expandCalls>>
                  ELSE IF bs = <<>>
                       THEN /\ ResolveReturns(UnscopedManager(bs, <<>>))
                            /\ loopIdx' = loopIdx
                       ELSE /\ pc' = "unscoped_tree"
                            /\ loopIdx' = 1
                            /\ UNCHANGED <<manager, outcome, fault,
                                           expandCalls>>
    /\ UNCHANGED <<env, args, fs, contents, stack, calls, lastExpand, codec>>

\* lines 113-128: project.repository_tree(ref=ref) for the requested branch
ScopedTree ==
    /\ pc = "scoped_tree"
    /\ outcome = "none"
    /\ LET ref == Strip(Ref.s) IN
       /\ calls' = Append(calls, TreeCall(PyStr(ref), <<>>))
       /\ \E netOk \in BOOLEAN :
             IF netOk /\ RefServed(world, PyStr(ref))
             THEN ResolveReturns(
                      ScopedManager(ref, FindBranch(branches, ref),
                          WrapItems(repository_tree(world, ref, <<>>), ref)))
             ELSE Raise("remote") /\ UNCHANGED <<manager, expandCalls>>
    /\ UNCHANGED <<env, args, fs, branches, contents, loopIdx, stack,
                   lastExpand, codec>>

\* lines 130-161: one iteration of `for branch in branches`, and the
\* construction of the result after the last one
UnscopedTree ==
    /\ pc = "unscoped_tree"
    /\ outcome = "none"
    /\ LET id == branches[loopIdx].encoded_id IN
       /\ calls' = Append(calls, TreeCall(PyStr(id), <<>>))
       /\ \E netOk \in BOOLEAN :
             IF netOk /\ RefServed(world, PyStr(id))
             THEN LET d == (id :> WrapItems(repository_tree(world, id, <<>>),
                                            id)) @@ contents
                  IN  /\ contents' = d
                      /\ IF loopIdx = Len(branches)
                         THEN /\ ResolveReturns(UnscopedManager(branches, d))
                              /\ loopIdx' = loopIdx
                         ELSE /\ loopIdx' = loopIdx + 1
                              /\ UNCHANGED <<pc, manager, outcome, fault,
                                             expandCalls>>
             ELSE /\ Raise("remote")
                  /\ UNCHANGED <<contents, loopIdx, manager, expandCalls>>
    /\ UNCHANGED <<env, args, fs, branches, stack, lastExpand, codec>>

-----------------------------------------------------------------------------
(* can_iterate.tree                                                        *)

\* the listing request tree() sends for a directory item
ExpandCall(item) == TreeCall(PyStr(item.branch), item.path)

\* the children tree() returns once the listing has arrived: each wrapped
\* with branch=item.branch; [] for a blob
ExpandItem(w, item) ==
    IF item.type = "tree"
    THEN WrapItems(repository_tree(w, item.branch, item.path), item.branch)
    ELSE <<>>

\* variant: tree() keeps the first listing and does not ask again
ExpandCached(i) ==
    /\ pc = "done"
    /\ op = "resolve"
    /\ outcome = "returned"
    /\ i \in 1..Len(manager.primary.contents)
    /\ expandCalls[i] < MaxExpand
    /\ expandCalls' = [expandCalls EXCEPT ![i] = @ + 1]
    /\ LET item == manager.primary.contents[i] IN
       IF item.type = "tree" /\ expandCalls[i] = 0
       THEN /\ calls' = Append(calls, ExpandCall(item))
            /\ lastExpand' = ExpandItem(world, item)
            /\ fault' = fault
       ELSE UNCHANGED <<calls, fault, lastExpand>>
    /\ UNCHANGED <<env, args, fs, pc, branches, contents, loopIdx, manager,
                   stack, outcome, codec>>

\* a caller invokes tree() on the i-th item of the resolved primary branch
Expand(i) ==
    /\ pc = "done"
    /\ op = "resolve"
    /\ outcome = "returned"
    /\ i \in 1..Len(manager.primary.contents)
    /\ expandCalls[i] < MaxExpand
    /\ expandCalls' = [expandCalls EXCEPT ![i] = @ + 1]
    /\ LET item == manager.primary.contents[i] IN
       IF item.type = "tree"
       THEN /\ calls' = Append(calls, ExpandCall(item))
            /\ \E netOk \in BOOLEAN :
                  IF netOk /\ RefServed(world, PyStr(item.branch))
                  THEN lastExpand' = ExpandItem(world, item) /\ fault' = fault
                  ELSE lastExpand' = lastExpand /\ fault' = "remote"
       ELSE /\ lastExpand' = <<>>
            /\ UNCHANGED <<calls, fault>>
    /\ UNCHANGED <<env, args, fs, pc, branches, contents, loopIdx, manager,
                   stack, outcome, codec>>

-----------------------------------------------------------------------------
(* clone_repo                                                              *)

\* variant: the overwrite flag is read the wrong way round
SkipCloneInverted(f, ow) == Exists(f, RepoPath) /\ ow

\* lines 179-182: the destination exists and overwrite was not requested
SkipClone(f, ow) == Exists(f, RepoPath) /\ ~ow

\* lines 176-185: the destination check and the creation of the root
CloneEnter ==
    /\ pc = "clone_enter"
    /\ outcome = "none"
    /\ IF SkipClone(fs, overwrite)
       THEN /\ pc' = "done"
            /\ outcome' = "returned"
            /\ UNCHANGED <<fs, stack, fault>>
       ELSE IF MkdirFails(fs, RepoPath)
       THEN Raise("local") /\ UNCHANGED <<fs, stack>>
       ELSE /\ fs' = Mkdir(fs, RepoPath)
            /\ stack' = manager.primary.contents
            /\ pc' = "walk"
            /\ UNCHANGED <<outcome, fault>>
    /\ UNCHANGED <<env, args, branches, contents, loopIdx, manager, calls,
                   lazy, codec>>

\* variant: the item is placed by its name instead of its path
TargetByName(item) == RepoPath \o <<item.name>>

\* repo_path / Path(item.path); os.path.join(repo_name, item.path)
Target(item) == RepoPath \o item.path

\* files.get(item.path, ref=ref)
FetchRef == Ref

\* sub_item.branch = ref or "main"
RebindBranch == IF Truthy(Ref) THEN Ref.s ELSE MainId

Rebind(items) == [i \in 1..Len(items) |-> [items[i] EXCEPT !.branch = RebindBranch]]

\* lines 189-200: one blob item
WalkBlob ==
    /\ pc = "walk"
    /\ outcome = "none"
    /\ stack # <<>>
    /\ Head(stack).type = "blob"
    /\ LET item   == Head(stack)
           target == Target(item)
       IN
       IF MkdirFails(fs, Parent(target))
       THEN Raise("local") /\ UNCHANGED <<fs, stack, calls>>
       ELSE LET f1 == Mkdir(fs, Parent(target)) IN
            /\ calls' = Append(calls, FileCall(FetchRef, item.path))
            /\ \E netOk \in BOOLEAN :
                  IF ~(netOk /\ HasFile(world, FetchRef, item.path))
                  THEN Raise("remote") /\ fs' = f1 /\ stack' = stack
                  ELSE LET d == decode_content(
                                    file_content(world, FetchRef.s, item.path))
                       IN
                       IF d.raised
                       THEN Raise("decode") /\ fs' = f1 /\ stack' = stack
                       ELSE IF OpenFails(f1, target)
                       THEN Raise("local") /\ fs' = f1 /\ stack' = stack
                       ELSE /\ fs' = WriteFile(f1, target, d)
                            /\ stack' = Tail(stack)
                            /\ UNCHANGED <<pc, outcome, fault>>
    /\ UNCHANGED <<env, args, branches, contents, loopIdx, manager, lazy,
                   codec>>

\* lines 201-211: one tree item; its children are visited before the rest
WalkTree ==
    /\ pc = "walk"
    /\ outcome = "none"
    /\ stack # <<>>
    /\ Head(stack).type = "tree"
    /\ LET item == Head(stack)
           dir  == Target(item)
       IN
       IF MkdirFails(fs, dir)
       THEN Raise("local") /\ UNCHANGED <<fs, stack, calls>>
       ELSE /\ fs' = Mkdir(fs, dir)
            /\ calls' = Append(calls, ExpandCall(item))
            /\ \E netOk \in BOOLEAN :
                  IF netOk /\ RefServed(world, PyStr(item.branch))
                  THEN /\ stack' = Rebind(ExpandItem(world, item)) \o Tail(stack)
                       /\ UNCHANGED <<pc, outcome, fault>>
                  ELSE Raise("remote") /\ stack' = stack
    /\ UNCHANGED <<env, args, branches, contents, loopIdx, manager, lazy,
                   codec>>

\* process_content(manager) has visited everything
WalkDone ==
    /\ pc = "walk"
    /\ outcome = "none"
    /\ stack = <<>>
    /\ pc' = "done"
    /\ outcome' = "returned"
    /\ UNCHANGED <<env, args, fs, branches, contents, loopIdx, manager, stack,
                   calls, fault, lazy, codec>>

Next ==
    \/ \E r \in RefArgs : Call("resolve", r, FALSE)
    \/ \E r \in RefArgs, ow \in BOOLEAN : Call("clone", r, ow)
    \/ GetProject
    \/ ListBranches
    \/ ScopedTree
    \/ UnscopedTree
    \/ \E i \in 1..Len(manager.primary.contents) : Expand(i)
    \/ CloneEnter
    \/ WalkBlob
    \/ WalkTree
    \/ WalkDone

Spec == Init /\ [][Next]_vars

-----------------------------------------------------------------------------
(* decode_content on its own                                               *)

CodecInit ==
    /\ b64in \in SeqsUpTo(B64Chars, MaxB64Len)
    /\ b64out = NotDecoded
    /\ pc = "codec"
    /\ world = Acme
    /\ fs0 = FsFresh
    /\ fs = FsFresh
    /\ op = "decode"
    /\ refArg = Omitted
    /\ overwrite = FALSE
    /\ branches = <<>>
    /\ contents = <<>>
    /\ loopIdx = 0
    /\ manager = NoManager
    /\ stack = <<>>
    /\ calls = <<>>
    /\ fault = "none"
    /\ outcome = "none"
    /\ expandCalls = <<>>
    /\ lastExpand = <<>>

Decode ==
    /\ pc = "codec"
    /\ b64out' = decode_content(b64in)
    /\ pc' = "codec_done"
    /\ outcome' = IF b64out'.raised THEN "raised" ELSE "returned"
    /\ UNCHANGED <<env, fs, op, refArg, overwrite, branches, contents,
                   loopIdx, manager, stack, calls, fault, lazy, b64in>>

CodecNext == Decode

CodecSpec == CodecInit /\ [][CodecNext]_vars

-----------------------------------------------------------------------------
(* Properties                                                              *)

MaxDepth == 4       \* directory levels followed when enumerating a remote tree

Returned == pc = "done" /\ outcome = "returned"

BranchListed == pc \notin {"idle", "get_project", "list_branches"}

Names(bs) == [i \in 1..Len(bs) |-> bs[i].name]

IsNotMainId(id) == id # MainId

\* every entry of branch `id` found by following directory entries from `path`
RECURSIVE ReachEntries(_, _, _, _)
ReachEntries(w, id, path, depth) ==
    IF depth = 0 THEN {}
    ELSE LET here == Range(repository_tree(w, id, path))
         IN  here \cup UNION {ReachEntries(w, id, e.path, depth - 1) :
                                 e \in {x \in here : x.type = "tree"}}

ReachBlobs(w, id) ==
    {e.path : e \in {x \in ReachEntries(w, id, <<>>, MaxDepth) : x.type = "blob"}}

ReachDirs(w, id) ==
    {e.path : e \in {x \in ReachEntries(w, id, <<>>, MaxDepth) : x.type = "tree"}}

\* the file a blob should become: its decoded bytes, opened as text iff UTF-8
ExpectedFile(content) ==
    LET b == b64decode(content).bytes
    IN  [mode |-> IF utf8decode(b).err THEN "wb" ELSE "w", data |-> b]

\* the branch a clone_repo or scoped call is about
RequestedBranch == IF Truthy(Ref) THEN Strip(Ref.s) ELSE MainId

CountCalls(c) == Cardinality({k \in 1..Len(calls) : calls[k] = c})

NewDirs == fs.dirs \ fs0.dirs

ChangedFiles ==
    {loc \in DOMAIN fs.files :
        loc \notin DOMAIN fs0.files \/ fs.files[loc] # fs0.files[loc]}

FileCallIssued == \E k \in 1..Len(calls) : calls[k].kind = "file"

\* C1: a non-empty ref whose trimmed value names no remote branch resolves,
\* once the branch list has arrived, without an exception to a manager whose
\* primary carries the trimmed ref, no branch metadata and no contents, with
\* has_more false and other_branches empty.
UnknownRefYieldsEmptyPrimary ==
    (/\ op = "resolve"
     /\ Truthy(Ref)
     /\ Strip(Ref.s) \notin Range(world.branches)
     /\ BranchListed)
    => /\ Returned
       /\ manager.primary.name = Strip(Ref.s)
       /\ ~manager.primary.branch.some
       /\ manager.primary.contents = <<>>
       /\ manager.has_more = FALSE
       /\ manager.other_branches = <<>>

UnknownRefWitness ==
    /\ op = "resolve"
    /\ Returned
    /\ Truthy(Ref)
    /\ Strip(Ref.s) # Ref.s
    /\ Strip(Ref.s) # <<>>
    /\ Strip(Ref.s) \notin Range(world.branches)
    /\ world.branches # <<>>

\* C2: in unscoped mode (ref None or empty) other_branches lists, in
\* branch-list order, exactly the remote branches not identified "main",
\* primary is the "main" branch (no metadata and no contents when the remote
\* has none), and has_more is true exactly when other_branches is non-empty.
UnscopedSplitsOnMain ==
    (op = "resolve" /\ ~Truthy(Ref) /\ Returned)
    => LET ids == world.branches IN
       /\ Names(manager.other_branches) = SelectSeq(ids, IsNotMainId)
       /\ \A i \in 1..Len(manager.other_branches) :
             manager.other_branches[i].branch =
                 ProjectBranch(manager.other_branches[i].name)
       /\ manager.primary.name = MainId
       /\ IF MainId \in Range(ids)
          THEN /\ manager.primary.branch = ProjectBranch(MainId)
               /\ manager.primary.contents
                      = WrapItems(repository_tree(world, MainId, <<>>), MainId)
          ELSE /\ ~manager.primary.branch.some
               /\ manager.primary.contents = <<>>
       /\ manager.has_more = (Len(manager.other_branches) > 0)

UnscopedWitness ==
    /\ op = "resolve"
    /\ ~Truthy(Ref)
    /\ Returned
    /\ Len(manager.other_branches) >= 2
    /\ manager.primary.branch.some
    /\ manager.primary.contents # <<>>

\* C3: with the ref argument omitted the call is unscoped: for the branches
\* ["main", "dev"] the result has primary "main", other_branches = [dev] and
\* has_more true.
OmittedRefIsUnscoped ==
    (/\ op = "resolve"
     /\ refArg = Omitted
     /\ Returned
     /\ world.branches = <<MainId, DevId>>)
    => /\ manager.primary.name = MainId
       /\ Names(manager.other_branches) = <<DevId>>
       /\ manager.has_more = TRUE


SkipCase == op = "clone" /\ ~overwrite /\ Exists(fs0, RepoPath)

FreshCloneMirrorsPrimary ==
    (op = "clone" /\ Returned /\ ~Exists(fs0, RepoPath))
    => LET b     == RequestedBranch
           blobs == ReachBlobs(world, b)
           at(q) == Norm(RepoPath \o q)
       IN  /\ \A q \in blobs :
                 /\ at(q) \in DOMAIN fs.files
                 /\ fs.files[at(q)] = ExpectedFile(file_content(world, b, q))
           /\ \A loc \in DOMAIN fs.files :
                 IsPrefix(RepoPath, loc) => \E q \in blobs : loc = at(q)
           /\ \A q \in ReachDirs(world, b) : at(q) \in fs.dirs
           /\ \A loc \in ChangedFiles : \E q \in blobs : loc = at(q)
           /\ RepoPath \in fs.dirs

FreshCloneWitness ==
    /\ op = "clone"
    /\ Returned
    /\ ~Exists(fs0, RepoPath)
    /\ manager.primary.branch.some
    /\ world.name = "acme"
    /\ (RepoPath \o <<"src", "deep", "z.txt">>) \in DOMAIN fs.files
    /\ (RepoPath \o <<"src", "lib.ext">>) \in DOMAIN fs.files

\* C6: clone_repo never creates a directory or writes a file outside the
\* destination root, whatever paths the remote reports.
WritesStayUnderRoot ==
    op = "clone"
    => \A loc \in NewDirs \cup ChangedFiles : IsPrefix(RepoPath, loc)

\* C7: decode_content never raises: (text, 1) when the decoded bytes are
\* UTF-8, (raw bytes, 0) on any decoding failure.
DecodeNeverRaises ==
    pc = "codec_done"
    => /\ ~b64out.raised
       /\ b64out.flag \in {0, 1}
       /\ (b64out.flag = 1 =>
              utf8encode(b64out.text) = b64decode(b64in).bytes)
       /\ (b64out.flag = 0 => utf8decode(b64out.bytes).err)

ExpandedItems == 1..Len(expandCalls)

\* C8 (as stated): the child list of a directory item is fetched at most
\* once: however often tree() is called on it, at most one listing request
\* is issued for it.
ChildrenFetchedAtMostOnce ==
    (op = "resolve" /\ Returned)
    => \A i \in ExpandedItems :
          CountCalls(ExpandCall(manager.primary.contents[i])) <= 1

\* C8 (amended): nothing is cached: every tree() call on a directory item
\* issues one listing request for that item's path and branch, and a call on
\* a file item issues none.
EveryExpandFetches ==
    (op = "resolve" /\ Returned)
    => \A i \in ExpandedItems :
          LET item == manager.primary.contents[i] IN
          CountCalls(ExpandCall(item))
              = IF item.type = "tree" THEN expandCalls[i] ELSE 0

EveryExpandWitness ==
    /\ op = "resolve"
    /\ Returned
    /\ \E i \in ExpandedItems :
          /\ manager.primary.contents[i].type = "tree"
          /\ expandCalls[i] >= 2
          /\ fault = "none"
          /\ lastExpand # <<>>

\* C9: once a remote call has failed during clone_repo the call has raised,
\* and from then on no file is written, no directory is created and no
\* further remote request is issued.
CloneFailsFast ==
    /\ [](op = "clone" /\ fault = "remote" => outcome = "raised")
    /\ [][op = "clone" /\ fault = "remote" => UNCHANGED <<fs, calls, pc>>]_vars

CloneFailsFastWitness ==
    /\ op = "clone"
    /\ fault = "remote"
    /\ outcome = "raised"
    /\ pc = "walk"
    /\ Len(stack) >= 2
    /\ ChangedFiles # {}

\* C10: within one clone_repo call every request that reads repository
\* content (tree listings and file fetches) names one and the same ref.
OneRefPerClone ==
    op = "clone"
    => \A i, j \in 1..Len(calls) : calls[i].ref = calls[j].ref

=============================================================================
